---- MODULE Spec2Model ----
(***************************************************************************)
(* Vault access control of the enterprise password manager: the handlers   *)
(* createUser, createVault, createCategory, shareVault and the three item  *)
(* creators, run against the tables of server/src/db/schema.ts.            *)
(*                                                                         *)
(* Rows carry the columns that the handlers' conditions read: ids, the     *)
(* foreign keys and the permission level, and the columns that hold        *)
(* credentials, key material and ciphertext.  No handler deletes a row and *)
(* the only update is enable2FA's, so a serial id is the row count plus    *)
(* one.                                                                    *)
(***************************************************************************)
EXTENDS Integers, FiniteSets, Sequences, TLC

\* ---- bounds of the model ----
\* sharing runs (Spec)
MaxUsers == 3
MaxVaults == 3
MaxShares == 2
\* the vaults 1..MaxSharedVault are the ones shareVault is called on
MaxSharedVault == 2
\* item-creation runs (ItemSpec)
ItemMaxUsers == 2
ItemMaxVaults == 2
ItemMaxShares == 1
MaxCategories == 1
MaxItems == 1
\* concurrent sharing runs (ConcSpec)
ConcMaxUsers == 2
ConcMaxShares == 2
\* the vaults 1..ConcSharedVault are the ones the racing requests name
ConcSharedVault == 1
\* runs of every operation (ApiSpec); shares, categories and items are
\* bounded as in the item-creation runs
ApiMaxUsers == 2
ApiMaxVaults == 3
\* the vaults 1..ApiTargetVault are the ones shared and filled
ApiTargetVault == 1
\* the users that enrol in two-factor authentication
MaxEnrolled == 1
\* sign-up runs (SignupSpec)
SignupMaxUsers == 2
\* the addresses 1..SignupMaxEmails are the ones users sign up under
SignupMaxEmails == 2
\* account runs (AccountSpec)
AccountMaxUsers == 2
\* the addresses 1..AccountMaxEmails are the ones users sign up under
AccountMaxEmails == 3
\* the secrets 1..AccountMaxSecrets and the empty one are those enrolled
AccountMaxSecrets == 1
\* login runs (AuthSpec)
AuthMaxUsers == 2
\* the secrets 1..AuthMaxSecrets and the empty one are those enrolled
AuthMaxSecrets == 1
\* the 30-second windows 1..AuthMaxWindows are the times of the logins
AuthMaxWindows == 2
\* search runs (SearchSpec); categories are bounded as in the item-creation
\* runs
SearchMaxUsers == 1
SearchMaxItems == 1
\* the strings 1..SearchMaxTitles are the titles and names items are given
SearchMaxTitles == 2
\* vault-listing runs (ListSpec)
ListMaxUsers == 2
ListMaxVaults == 2
ListMaxShares == 2
\* vault-reading runs (BrowseSpec)
BrowseMaxUsers == 1
BrowseMaxItems == 2
\* concurrent item-creation runs (RaceSpec)
RaceMaxUsers == 2
RaceMaxShares == 1
\* the vaults 1..RaceTargetVault are the ones items are created in
RaceTargetVault == 1
\* password-generation runs (GenSpec): lengths up to GenMaxLength, random
\* bytes 0..GenMaxByte and 255
GenMaxLength == 4
GenMaxByte == 1
\* sign-up-then-login runs (SigninSpec)
SigninMaxUsers == 2
SigninMaxPasswords == 2
SigninMaxSalts == 2
\* encryption runs (EncSpec)
EncMaxUsers == 2
EncMaxItems == 2
\* the plaintexts 1..EncMaxTexts are the secrets the creators are given
EncMaxTexts == 2

\* ---- program constants ----
\* a nullable integer column or optional input that is absent; `x || null`
\* in the handlers sends 0, null and undefined to null alike
Null == 0

\* the string of length zero, among strings named by positive numbers
EmptyString == -1

PermissionLevels == {"read", "write", "admin"}

\* length: z.number().int().min(4)
MinPasswordLength == 4

\* ---- the strings the handlers compute ----
\* An input string is a positive number naming its text.  A computed string
\* is the sequence of its ':'-separated parts; a part records the algorithm
\* that produced it, its data x, its key k with the key's derivation kd, and
\* its salt or IV n.  Digests and ciphers are injective in what they are given:
\* equal parts are equal strings and different parts different strings.
Part(alg, x, k, kd, n) == [alg |-> alg, x |-> x, k |-> k, kd |-> kd, n |-> n]

\* an input string as stored or compared without conversion
Text(x) == <<Part("text", x, Null, "none", Null)>>

\* randomBytes(n).toString('hex')
Hex(n) == Part("hex", n, Null, "none", Null)

\* (encryptPassword storing the password as it came)
encryptPasswordAsText(password, encryptionKey) == Text(password)

\* createHash('sha256').update(password + encryptionKey).digest('hex')
encryptPassword(password, encryptionKey) ==
    <<Part("sha256", password, encryptionKey, "none", Null)>>

\* aes-256-cbc under Buffer.from(encryptionKey, 'hex') and a random IV;
\* returns iv.toString('hex') + ':' + encrypted
encryptContent(content, encryptionKey, iv) ==
    <<Hex(iv), Part("aes-256-cbc", content, encryptionKey, "hex", iv)>>

\* aes-256-cbc under sha256(key) and a random IV; returns
\* iv.toString('hex') + ':' + encrypted
encryptData(data, key, iv) ==
    <<Hex(iv), Part("aes-256-cbc", data, key, "sha256", iv)>>

\* createUser: pbkdf2Sync(password, salt, 10000, 64, 'sha512') hex + ':' + salt
pbkdf2Hash(password, salt) ==
    <<Part("pbkdf2-sha512", password, Null, "none", salt), Hex(salt)>>

VARIABLES
    usersTable,            \* rows [id, email, password_hash,
                           \*       two_factor_enabled, two_factor_secret]
    vaultsTable,           \* rows [id, owner_id, encryption_key]
    categoriesTable,       \* rows [id, vault_id]
    passwordEntriesTable,  \* rows [id, vault_id, category_id, created_by,
                           \*       title, username, encrypted_password,
                           \*       url, notes]
    secureNotesTable,      \* rows [id, vault_id, category_id, created_by,
                           \*       title, encrypted_content]
    creditCardsTable,      \* rows [id, vault_id, category_id, created_by,
                           \*       title, cardholder_name,
                           \*       encrypted_card_number, encrypted_cvv]
    vaultSharingTable,     \* rows [id, vault_id, shared_with_user_id,
                           \*       shared_by_user_id, permission_level]
    last,                  \* the last completed call: [op, in, res], and
                           \* out, the value returned, when res is "ok"
    req                    \* in-flight requests, one per client

tables == <<usersTable, vaultsTable, categoriesTable, passwordEntriesTable,
            secureNotesTable, creditCardsTable, vaultSharingTable>>
itemTables == <<passwordEntriesTable, secureNotesTable, creditCardsTable>>
vars == <<usersTable, vaultsTable, categoriesTable, passwordEntriesTable,
          secureNotesTable, creditCardsTable, vaultSharingTable, last, req>>

\* the two concurrent clients of the sharing race
Requests == {1, 2}

\* serial('id').primaryKey(): the next value of the table's sequence.  (An
\* insert that fails draws a value too; ids are then larger but as fresh, and
\* no handler reads more of an id than its identity.)
NextId(table) == Cardinality(table) + 1

\* ---- the queries the handlers run ----
SelectVault(vault_id) == {v \in vaultsTable : v.id = vault_id}

SelectUser(user_id) == {u \in usersTable : u.id = user_id}

\* (SelectAdminShare with the level test widened to write)
SelectAdminShareOrWrite(vault_id, user_id) ==
    {s \in vaultSharingTable : /\ s.vault_id = vault_id
                               /\ s.shared_with_user_id = user_id
                               /\ s.permission_level \in {"write", "admin"}}

\* shareVault: the acting user's admin-level sharing rows on the vault
SelectAdminShare(vault_id, user_id) ==
    {s \in vaultSharingTable : /\ s.vault_id = vault_id
                               /\ s.shared_with_user_id = user_id
                               /\ s.permission_level = "admin"}

\* (SelectExistingShare matching the target against the wrong column)
SelectExistingShareBySharer(vault_id, user_id) ==
    {s \in vaultSharingTable : /\ s.vault_id = vault_id
                               /\ s.shared_by_user_id = user_id}

\* shareVault: the rows already sharing the vault with the target
SelectExistingShare(vault_id, user_id) ==
    {s \in vaultSharingTable : /\ s.vault_id = vault_id
                               /\ s.shared_with_user_id = user_id}

IdleRequest == [pc |-> "idle"]

Init ==
    /\ usersTable = {}
    /\ vaultsTable = {}
    /\ categoriesTable = {}
    /\ passwordEntriesTable = {}
    /\ secureNotesTable = {}
    /\ creditCardsTable = {}
    /\ vaultSharingTable = {}
    /\ last = [op |-> "none", res |-> "ok"]
    /\ req = [r \in Requests |-> IdleRequest]

\* ---- createUser: the user row, then the user's default vault ----
UserInputs(emails, passwords) == [email : emails, password : passwords]

\* a sign-up under an address no user has yet
NewUserInput == [email |-> NextId(usersTable), password |-> 1]

\* randomBytes(32) for a vault's key, taken as never repeating a value
FreshKey == NextId(vaultsTable)

\* (createUserResult over a column without the unique constraint)
createUserResultNotUnique(input) == "ok"

\* email: text('email').notNull().unique(): inserting a second row with an
\* email throws, and the handler rethrows
createUserResult(input) ==
    IF \E u \in usersTable : u.email = input.email THEN "UniqueViolation"
    ELSE "ok"

\* db.insert(usersTable).values({...})
UserRow(input, salt) ==
    [id |-> NextId(usersTable),
     email |-> input.email,
     password_hash |-> pbkdf2Hash(input.password, salt),
     two_factor_enabled |-> FALSE,
     two_factor_secret |-> Null]

\* db.insert(vaultsTable).values({...})
VaultRow(owner_id, encryptionKey) ==
    [id |-> NextId(vaultsTable),
     owner_id |-> owner_id,
     encryption_key |-> encryptionKey]

createUser(input, salt, encryptionKey) ==
    /\ LET res == createUserResult(input)
           user == UserRow(input, salt) IN
         /\ usersTable' =
              IF res = "ok" THEN usersTable \cup {user} ELSE usersTable
         /\ vaultsTable' =
              IF res = "ok"
              THEN vaultsTable \cup {VaultRow(user.id, encryptionKey)}
              ELSE vaultsTable
         /\ last' =
              IF res = "ok"
              THEN [op |-> "createUser", in |-> input, res |-> res,
                    out |-> user]
              ELSE [op |-> "createUser", in |-> input, res |-> res]
    /\ UNCHANGED <<categoriesTable, itemTables, vaultSharingTable, req>>

\* ---- createVault ----
createVaultResult(owner_id) ==
    IF SelectUser(owner_id) = {} THEN "OwnerNotFound" ELSE "ok"

\* (createVault giving the new key to the owner's other vaults as well)
createVaultRekeying(owner_id, encryptionKey) ==
    /\ LET res == createVaultResult(owner_id)
           vault == VaultRow(owner_id, encryptionKey) IN
         /\ vaultsTable' =
              IF res = "ok"
              THEN {IF v.owner_id = owner_id
                    THEN [v EXCEPT !.encryption_key = encryptionKey]
                    ELSE v : v \in vaultsTable} \cup {vault}
              ELSE vaultsTable
         /\ last' =
              IF res = "ok"
              THEN [op |-> "createVault", in |-> [owner_id |-> owner_id],
                    res |-> res, out |-> vault]
              ELSE [op |-> "createVault", in |-> [owner_id |-> owner_id],
                    res |-> res]
    /\ UNCHANGED <<usersTable, categoriesTable, itemTables,
                   vaultSharingTable, req>>

createVault(owner_id, encryptionKey) ==
    /\ LET res == createVaultResult(owner_id)
           vault == VaultRow(owner_id, encryptionKey) IN
         /\ vaultsTable' =
              IF res = "ok" THEN vaultsTable \cup {vault} ELSE vaultsTable
         \* return result[0]
         /\ last' =
              IF res = "ok"
              THEN [op |-> "createVault", in |-> [owner_id |-> owner_id],
                    res |-> res, out |-> vault]
              ELSE [op |-> "createVault", in |-> [owner_id |-> owner_id],
                    res |-> res]
    /\ UNCHANGED <<usersTable, categoriesTable, itemTables,
                   vaultSharingTable, req>>

\* ---- createCategory ----
createCategoryResult(vault_id) ==
    IF SelectVault(vault_id) = {} THEN "VaultNotFound" ELSE "ok"

\* db.insert(categoriesTable).values({name, vault_id}) once the vault is
\* found
insertCategory(vault_id) ==
    /\ categoriesTable' =
         IF createCategoryResult(vault_id) = "ok"
         THEN categoriesTable \cup
                {[id |-> NextId(categoriesTable), vault_id |-> vault_id]}
         ELSE categoriesTable
    /\ UNCHANGED <<usersTable, vaultsTable, itemTables,
                   vaultSharingTable, req>>

createCategory(vault_id) ==
    /\ insertCategory(vault_id)
    /\ last' = [op |-> "createCategory", in |-> [vault_id |-> vault_id],
                res |-> createCategoryResult(vault_id)]

\* the createCategory route called by a client acting for `caller` (Null:
\* for nobody): the procedure is public and has no context, so the
\* handler is handed the input and nothing about the caller
createCategoryRoute(caller, vault_id) ==
    /\ insertCategory(vault_id)
    /\ last' = [op |-> "createCategory", in |-> [vault_id |-> vault_id],
                res |-> createCategoryResult(vault_id), caller |-> caller]

\* ---- shareVault, run to completion by a single caller ----
ShareVaultInputs(maxVaults, maxUsers) ==
    [vault_id : 1..maxVaults, shared_with_user_id : 1..maxUsers,
     shared_by_user_id : 1..maxUsers, permission_level : PermissionLevels]

\* owner, or an admin-level sharing row
\* (hasAdminAccess accepting an admin grant on any vault)
hasAdminAccessAnyVault(vault, input) ==
    \/ vault.owner_id = input.shared_by_user_id
    \/ \E s \in vaultSharingTable :
         /\ s.shared_with_user_id = input.shared_by_user_id
         /\ s.permission_level = "admin"

hasAdminAccess(vault, input) ==
    \/ vault.owner_id = input.shared_by_user_id
    \/ SelectAdminShare(input.vault_id, input.shared_by_user_id) # {}

\* (isOwnerShare catching the owner as target only when the owner also acts)
isOwnerShareByOwner(owner_id, input) ==
    /\ input.shared_with_user_id = owner_id
    /\ input.shared_by_user_id = owner_id

\* input.shared_with_user_id === vault[0].owner_id
isOwnerShare(owner_id, input) ==
    input.shared_with_user_id = owner_id

\* input.shared_with_user_id === input.shared_by_user_id
isSelfShare(input) ==
    input.shared_with_user_id = input.shared_by_user_id

\* (shareVaultResult with the two business-rule checks ahead of the
\* authority check)
shareVaultResultRulesFirst(input) ==
    LET vault == SelectVault(input.vault_id) IN
    IF vault = {} THEN "VaultNotFound"
    ELSE IF SelectUser(input.shared_with_user_id) = {}
         THEN "TargetUserNotFound"
    ELSE IF SelectUser(input.shared_by_user_id) = {}
         THEN "ActingUserNotFound"
    ELSE LET v == CHOOSE x \in vault : TRUE IN
    IF isSelfShare(input) THEN "CannotShareWithSelf"
    ELSE IF isOwnerShare(v.owner_id, input) THEN "CannotShareWithOwner"
    ELSE IF ~hasAdminAccess(v, input) THEN "InsufficientPermissions"
    ELSE IF SelectExistingShare(input.vault_id,
                                input.shared_with_user_id) # {}
         THEN "AlreadyShared"
    ELSE "ok"

shareVaultResult(input) ==
    LET vault == SelectVault(input.vault_id) IN
    IF vault = {} THEN "VaultNotFound"
    ELSE IF SelectUser(input.shared_with_user_id) = {}
         THEN "TargetUserNotFound"
    ELSE IF SelectUser(input.shared_by_user_id) = {}
         THEN "ActingUserNotFound"
    ELSE LET v == CHOOSE x \in vault : TRUE IN
    IF ~hasAdminAccess(v, input) THEN "InsufficientPermissions"
    ELSE IF isSelfShare(input) THEN "CannotShareWithSelf"
    ELSE IF isOwnerShare(v.owner_id, input) THEN "CannotShareWithOwner"
    ELSE IF SelectExistingShare(input.vault_id,
                                input.shared_with_user_id) # {}
         THEN "AlreadyShared"
    ELSE "ok"

\* db.insert(vaultSharingTable).values({...})
SharingRow(input) ==
    [id |-> NextId(vaultSharingTable),
     vault_id |-> input.vault_id,
     shared_with_user_id |-> input.shared_with_user_id,
     shared_by_user_id |-> input.shared_by_user_id,
     permission_level |-> input.permission_level]

shareVault(input) ==
    /\ LET res == shareVaultResult(input) IN
         /\ vaultSharingTable' =
              IF res = "ok" THEN vaultSharingTable \cup {SharingRow(input)}
              ELSE vaultSharingTable
         /\ last' = [op |-> "shareVault", in |-> input, res |-> res]
    /\ UNCHANGED <<usersTable, vaultsTable, categoriesTable, itemTables, req>>

\* ---- the item creators ----
ItemInputs(maxVaults, maxUsers) ==
    [vault_id : 1..maxVaults, category_id : {Null} \cup (1..MaxCategories),
     created_by : 1..maxUsers]

\* the inputs with their secret fields (from texts), their titles and names
\* (from titles) and their optional fields (from optionals)
PasswordEntryInputs(maxVaults, maxUsers, texts, titles, optionals) ==
    {f @@ i : i \in ItemInputs(maxVaults, maxUsers),
              f \in [password : texts, title : titles, username : optionals,
                     url : optionals, notes : optionals]}

SecureNoteInputs(maxVaults, maxUsers, texts, titles) ==
    {f @@ i : i \in ItemInputs(maxVaults, maxUsers),
              f \in [content : texts, title : titles]}

CreditCardInputs(maxVaults, maxUsers, texts, titles) ==
    {f @@ i : i \in ItemInputs(maxVaults, maxUsers),
              f \in [card_number : texts, cvv : texts, title : titles,
                     cardholder_name : titles]}

\* input.username || null: the empty string is stored as null too
OrNull(x) == IF x = EmptyString THEN Null ELSE x

\* the key of the vault the handler has selected
VaultKey(vault_id) ==
    (CHOOSE v \in SelectVault(vault_id) : TRUE).encryption_key

\* randomBytes(16) for an IV, taken as never repeating a value: a note's
\* envelope uses one, a card's two
FreshIV ==
    Cardinality(secureNotesTable) + 2 * Cardinality(creditCardsTable) + 1

\* the call's record: the inserted row is what a successful call returns
ItemCall(op, input, res, row) ==
    IF res = "ok" THEN [op |-> op, in |-> input, res |-> res, out |-> row]
    ELSE [op |-> op, in |-> input, res |-> res]

\* (SelectWriteShare without the level test)
SelectAnyShare(vault_id, user_id) ==
    {s \in vaultSharingTable : /\ s.vault_id = vault_id
                               /\ s.shared_with_user_id = user_id}

\* createPasswordEntry, createCreditCard: the actor's write- or admin-level
\* sharing rows on the vault
SelectWriteShare(vault_id, user_id) ==
    {s \in vaultSharingTable : /\ s.vault_id = vault_id
                               /\ s.shared_with_user_id = user_id
                               /\ s.permission_level \in {"write", "admin"}}

\* (SelectCategoryInVault without the vault test)
SelectCategoryAnywhere(category_id, vault_id) ==
    {c \in categoriesTable : c.id = category_id}

\* the category, if it is one of the vault's
SelectCategoryInVault(category_id, vault_id) ==
    {c \in categoriesTable : c.id = category_id /\ c.vault_id = vault_id}

\* (categoryMissing accepting a category that exists in any vault)
categoryMissingEverywhere(input) ==
    /\ input.category_id # Null
    /\ \A c \in categoriesTable : c.id # input.category_id

\* if (input.category_id) { ... categories.length === 0 ... }
categoryMissing(input) ==
    /\ input.category_id # Null
    /\ SelectCategoryInVault(input.category_id, input.vault_id) = {}

\* the columns all three creators insert: category_id: input.category_id
\* || null
ItemRow(table, input) ==
    [id |-> NextId(table),
     vault_id |-> input.vault_id,
     category_id |-> input.category_id,
     created_by |-> input.created_by]

createPasswordEntryResult(input) ==
    LET vaults == SelectVault(input.vault_id) IN
    IF vaults = {} THEN "VaultNotFound"
    ELSE LET vault == CHOOSE x \in vaults : TRUE IN
    IF /\ vault.owner_id # input.created_by
       /\ SelectWriteShare(input.vault_id, input.created_by) = {}
    THEN "InsufficientPermissions"
    ELSE IF categoryMissing(input) THEN "CategoryNotFound"
    \* created_by references usersTable.id
    ELSE IF SelectUser(input.created_by) = {} THEN "ForeignKeyViolation"
    ELSE "ok"

\* db.insert(passwordEntriesTable).values({...}), encrypted under the key
\* of the vault row the handler read
PasswordEntryRow(input, encryptionKey) ==
    [title |-> input.title,
     username |-> OrNull(input.username),
     encrypted_password |-> encryptPassword(input.password, encryptionKey),
     url |-> OrNull(input.url),
     notes |-> OrNull(input.notes)] @@ ItemRow(passwordEntriesTable, input)

createPasswordEntry(input) ==
    /\ LET res == createPasswordEntryResult(input)
           row == PasswordEntryRow(input, VaultKey(input.vault_id)) IN
         /\ passwordEntriesTable' =
              IF res = "ok" THEN passwordEntriesTable \cup {row}
              ELSE passwordEntriesTable
         /\ last' = ItemCall("createPasswordEntry", input, res, row)
    /\ UNCHANGED <<usersTable, vaultsTable, categoriesTable, secureNotesTable,
                   creditCardsTable, vaultSharingTable, req>>

\* a column of the all-NULL right side of a LEFT JOIN
NullShare ==
    [id |-> Null, vault_id |-> Null, shared_with_user_id |-> Null,
     shared_by_user_id |-> Null, permission_level |-> "null"]

\* SQL equality: a comparison with NULL is not true
SqlEq(a, b) == a # Null /\ b # Null /\ a = b

\* (SecureNoteAccessRows with an inner join: a vault without a matching
\* sharing row is not in the result)
SecureNoteAccessRowsInnerJoin(vault_id, user_id) ==
    {<<v, s>> \in vaultsTable \X vaultSharingTable :
        /\ s.vault_id = v.id
        /\ s.shared_with_user_id = user_id
        /\ s.permission_level \in {"write", "admin"}
        /\ v.id = vault_id}

\* createSecureNote's access query: vaults LEFT JOIN vault_sharing ON (the
\* actor's write/admin rows of that vault) WHERE vault is the target and
\* (owner is the actor or the joined row is shared with the actor)
SecureNoteAccessRows(vault_id, user_id) ==
    LET matches(v) ==
            {s \in vaultSharingTable :
                /\ s.vault_id = v.id
                /\ s.shared_with_user_id = user_id
                /\ s.permission_level \in {"write", "admin"}}
        joined ==
            UNION {IF matches(v) = {} THEN {<<v, NullShare>>}
                   ELSE {<<v, s>> : s \in matches(v)} : v \in vaultsTable}
    IN {j \in joined :
          /\ j[1].id = vault_id
          /\ \/ j[1].owner_id = user_id
             \/ SqlEq(j[2].shared_with_user_id, user_id)}

createSecureNoteResult(input) ==
    IF SelectVault(input.vault_id) = {} THEN "VaultNotFound"
    ELSE IF SelectUser(input.created_by) = {} THEN "UserNotFound"
    ELSE IF SecureNoteAccessRows(input.vault_id, input.created_by) = {}
         THEN "InsufficientPermissions"
    ELSE IF categoryMissing(input) THEN "CategoryNotFound"
    ELSE "ok"

\* db.insert(secureNotesTable).values({...})
SecureNoteRow(input, encryptionKey, iv) ==
    [title |-> input.title,
     encrypted_content |-> encryptContent(input.content, encryptionKey, iv)]
      @@ ItemRow(secureNotesTable, input)

createSecureNote(input, iv) ==
    /\ LET res == createSecureNoteResult(input)
           row == SecureNoteRow(input, VaultKey(input.vault_id), iv) IN
         /\ secureNotesTable' =
              IF res = "ok" THEN secureNotesTable \cup {row}
              ELSE secureNotesTable
         /\ last' = ItemCall("createSecureNote", input, res, row)
    /\ UNCHANGED <<usersTable, vaultsTable, categoriesTable,
                   passwordEntriesTable, creditCardsTable,
                   vaultSharingTable, req>>

createCreditCardResult(input) ==
    IF SelectUser(input.created_by) = {} THEN "UserNotFound"
    ELSE LET vaults == SelectVault(input.vault_id) IN
    IF vaults = {} THEN "VaultNotFound"
    ELSE LET vault == CHOOSE x \in vaults : TRUE IN
    IF /\ vault.owner_id # input.created_by
       /\ SelectWriteShare(input.vault_id, input.created_by) = {}
    THEN "InsufficientPermissions"
    ELSE IF categoryMissing(input) THEN "CategoryNotFound"
    ELSE "ok"

\* db.insert(creditCardsTable).values({...})
CreditCardRow(input, encryptionKey, ivNumber, ivCvv) ==
    [title |-> input.title,
     cardholder_name |-> input.cardholder_name,
     encrypted_card_number |->
        encryptData(input.card_number, encryptionKey, ivNumber),
     encrypted_cvv |-> encryptData(input.cvv, encryptionKey, ivCvv)]
      @@ ItemRow(creditCardsTable, input)

createCreditCard(input, ivNumber, ivCvv) ==
    /\ LET res == createCreditCardResult(input)
           row == CreditCardRow(input, VaultKey(input.vault_id),
                                ivNumber, ivCvv) IN
         /\ creditCardsTable' =
              IF res = "ok" THEN creditCardsTable \cup {row}
              ELSE creditCardsTable
         /\ last' = ItemCall("createCreditCard", input, res, row)
    /\ UNCHANGED <<usersTable, vaultsTable, categoriesTable,
                   passwordEntriesTable, secureNotesTable,
                   vaultSharingTable, req>>

\* ---- enable2FA ----
Enable2FAInputs(maxUsers, secrets) == [user_id : 1..maxUsers, secret : secrets]

\* (enable2FAResult without the lookup: the update of no row succeeds)
enable2FAResultUnchecked(input) == "ok"

enable2FAResult(input) ==
    IF SelectUser(input.user_id) = {} THEN "UserNotFound" ELSE "ok"

\* (Enable2FAUpdate setting the flag and leaving the secret)
Enable2FAUpdateFlagOnly(input) ==
    {IF u.id = input.user_id THEN [u EXCEPT !.two_factor_enabled = TRUE]
     ELSE u : u \in usersTable}

\* db.update(usersTable).set({two_factor_enabled: true, two_factor_secret:
\* input.secret, ...}).where(eq(usersTable.id, input.user_id))
Enable2FAUpdate(input) ==
    {IF u.id = input.user_id
     THEN [u EXCEPT !.two_factor_enabled = TRUE,
                    !.two_factor_secret = input.secret]
     ELSE u : u \in usersTable}

\* (the backup codes returned are random and stored nowhere)
enable2FA(input) ==
    /\ LET res == enable2FAResult(input) IN
         /\ usersTable' =
              IF res = "ok" THEN Enable2FAUpdate(input) ELSE usersTable
         /\ last' =
              IF res = "ok"
              THEN [op |-> "enable2FA", in |-> input, res |-> res,
                    out |-> [success |-> TRUE]]
              ELSE [op |-> "enable2FA", in |-> input, res |-> res]
    /\ UNCHANGED <<vaultsTable, categoriesTable, itemTables,
                   vaultSharingTable, req>>

\* ---- authenticateUser ----
\* createHash('sha256').update(password).digest('hex')
hashPassword(password) == <<Part("sha256", password, Null, "none", Null)>>

\* createHash('sha256').update(secret + Math.floor(Date.now() / 30000))
\*     .digest('hex').slice(0, 6)
expectedToken(secret, now) == <<Part("sha256/6", secret, Null, "none", now)>>

\* the tokens a client may send: none (the field is absent), the empty
\* string, six characters that are no digest, or the code of a secret in a
\* window
LoginInputs(emails, passwords, secrets, windows) ==
    [email : emails, password : passwords]
      \cup [email : emails, password : passwords,
            two_factor_token :
                {<<>>, Text(1)}
                  \cup {expectedToken(x, w) : x \in secrets, w \in windows}]

\* (verify2FAToken comparing the lengths only)
verify2FATokenByLength(token, secret, now) ==
    Len(token) = Len(expectedToken(secret, now))

\* equal lengths and timingSafeEqual
verify2FAToken(token, secret, now) ==
    /\ Len(token) = Len(expectedToken(secret, now))
    /\ token = expectedToken(secret, now)

\* !input.two_factor_token: undefined or ''
tokenMissing(input) ==
    \/ "two_factor_token" \notin DOMAIN input
    \/ input.two_factor_token = <<>>

\* !user.two_factor_secret: null or ''
secretMissing(user) == user.two_factor_secret \in {Null, EmptyString}

\* the rows with the email; "null" is the handler returning null
authenticateUserResult(input, now) ==
    LET users == {u \in usersTable : u.email = input.email} IN
    IF users = {} THEN "null"
    ELSE LET user == CHOOSE u \in users : TRUE IN
    IF hashPassword(input.password) # user.password_hash THEN "null"
    ELSE IF ~user.two_factor_enabled THEN "ok"
    ELSE IF tokenMissing(input) THEN "null"
    ELSE IF secretMissing(user) THEN "null"
    ELSE IF ~verify2FAToken(input.two_factor_token,
                            user.two_factor_secret, now)
    THEN "null"
    ELSE "ok"

\* now is the 30-second window the call runs in
authenticateUser(input, now) ==
    /\ LET res == authenticateUserResult(input, now) IN
         last' =
           IF res = "ok"
           THEN [op |-> "authenticateUser", in |-> input, at |-> now,
                 res |-> res,
                 out |-> CHOOSE u \in usersTable : u.email = input.email]
           ELSE [op |-> "authenticateUser", in |-> input, at |-> now,
                 res |-> res]
    /\ UNCHANGED <<tables, req>>

\* ---- searchItems ----
\* the characters of the strings that titles, names and queries name:
\* "ab", "a_", "b a", "A", "_", "%", " "
SearchTexts ==
    <<<<"a", "b">>, <<"a", "_">>, <<"b", " ", "a">>, <<"A">>, <<"_">>,
      <<"%">>, <<" ">>>>

Chars(x) == IF x = EmptyString THEN <<>> ELSE SearchTexts[x]

ItemTypes == {"password", "note", "credit_card"}

\* a field the input may leave out
Optional(field, values) ==
    {<<>>} \cup {[f \in {field} |-> v] : v \in values}

SearchInputs(queries, vaults, categories) ==
    {q @@ v @@ c @@ t : q \in [query : queries],
                        v \in Optional("vault_id", vaults),
                        c \in Optional("category_id", categories),
                        t \in Optional("type", ItemTypes)}

\* !input.type || input.type === type
shouldSearch(input, type) ==
    "type" \notin DOMAIN input \/ input.type = type

\* input.query.trim() === ''
isBlank(query) ==
    \A i \in 1..Len(Chars(query)) : Chars(query)[i] = " "

\* `%${input.query}%`
Pattern(query) == <<"%">> \o Chars(query) \o <<"%">>

\* the lower case of a character
Lower(c) == IF c = "A" THEN "a" ELSE c

\* LIKE from position i of the string and j of the pattern: % stands for any
\* run of characters, _ for any one character
RECURSIVE Like(_, _, _, _)
Like(string, i, pattern, j) ==
    IF j > Len(pattern) THEN i > Len(string)
    ELSE IF pattern[j] = "%"
    THEN \/ Like(string, i, pattern, j + 1)
         \/ i <= Len(string) /\ Like(string, i + 1, pattern, j)
    ELSE /\ i <= Len(string)
         /\ pattern[j] = "_" \/ Lower(pattern[j]) = Lower(string[i])
         /\ Like(string, i + 1, pattern, j + 1)

\* ilike(column, pattern): LIKE without regard to case; NULL matches nothing
ilike(column, pattern) ==
    column # Null /\ Like(Chars(column), 1, pattern, 1)

\* (searchFilters letting a row without category pass a category filter)
searchFiltersNullPasses(row, input) ==
    /\ "vault_id" \in DOMAIN input => row.vault_id = input.vault_id
    /\ "category_id" \in DOMAIN input
         => \/ row.category_id = Null
            \/ row.category_id = input.category_id

\* the vault_id and category_id conditions, for the filters given
searchFilters(row, input) ==
    /\ "vault_id" \in DOMAIN input => row.vault_id = input.vault_id
    /\ "category_id" \in DOMAIN input
         => SqlEq(row.category_id, input.category_id)

searchPasswordEntries(input) ==
    IF ~shouldSearch(input, "password") THEN {}
    ELSE {e \in passwordEntriesTable :
            /\ \/ isBlank(input.query)
               \/ ilike(e.title, Pattern(input.query))
               \/ ilike(e.username, Pattern(input.query))
               \/ ilike(e.url, Pattern(input.query))
               \/ ilike(e.notes, Pattern(input.query))
            /\ searchFilters(e, input)}

searchSecureNotes(input) ==
    IF ~shouldSearch(input, "note") THEN {}
    ELSE {n \in secureNotesTable :
            /\ isBlank(input.query) \/ ilike(n.title, Pattern(input.query))
            /\ searchFilters(n, input)}

searchCreditCards(input) ==
    IF ~shouldSearch(input, "credit_card") THEN {}
    ELSE {c \in creditCardsTable :
            /\ \/ isBlank(input.query)
               \/ ilike(c.title, Pattern(input.query))
               \/ ilike(c.cardholder_name, Pattern(input.query))
            /\ searchFilters(c, input)}

searchItems(input) ==
    /\ last' = [op |-> "searchItems", in |-> input, res |-> "ok",
                out |-> [passwordEntries |-> searchPasswordEntries(input),
                         secureNotes |-> searchSecureNotes(input),
                         creditCards |-> searchCreditCards(input)]]
    /\ UNCHANGED <<tables, req>>

\* ---- getUserVaults ----
\* the rows of a query in the order of their ids
RECURSIVE RowsById(_)
RowsById(rows) ==
    IF rows = {} THEN <<>>
    ELSE LET first == CHOOSE r \in rows : \A o \in rows : r.id <= o.id
         IN <<first>> \o RowsById(rows \ {first})

\* select().from(vaultsTable).where(eq(vaultsTable.owner_id, userId))
ownedVaults(userId) ==
    RowsById({v \in vaultsTable : v.owner_id = userId})

\* vaultsTable innerJoin vaultSharingTable on vault_id, where
\* shared_with_user_id = userId: one vault row per sharing row
sharedVaults(userId) ==
    LET shares == RowsById({s \in vaultSharingTable :
                               s.shared_with_user_id = userId})
    IN [i \in 1..Len(shares) |->
           CHOOSE v \in vaultsTable : v.id = shares[i].vault_id]

\* (uniqueVaults keeping every element)
uniqueVaultsUnfiltered(allVaults, index) == allVaults

\* allVaults.filter((vault, index, self) =>
\*     index === self.findIndex(v => v.id === vault.id))
RECURSIVE uniqueVaults(_, _)
uniqueVaults(allVaults, index) ==
    IF index > Len(allVaults) THEN <<>>
    ELSE IF \E j \in 1..(index - 1) : allVaults[j].id = allVaults[index].id
    THEN uniqueVaults(allVaults, index + 1)
    ELSE <<allVaults[index]>> \o uniqueVaults(allVaults, index + 1)

getUserVaults(userId) ==
    /\ last' = [op |-> "getUserVaults", in |-> [userId |-> userId],
                res |-> "ok",
                out |-> uniqueVaults(ownedVaults(userId)
                                       \o sharedVaults(userId), 1)]
    /\ UNCHANGED <<tables, req>>

\* rows in the three item tables together
\* ---- getVaultItems ----
\* the handler logs its arguments and resolves to three empty arrays; it
\* runs no query
getVaultItems(input) ==
    /\ last' = [op |-> "getVaultItems", in |-> input, res |-> "ok",
                out |-> [passwordEntries |-> {}, secureNotes |-> {},
                         creditCards |-> {}]]
    /\ UNCHANGED <<tables, req>>

\* ---- generatePassword ----
lowercase ==
    <<"a", "b", "c", "d", "e", "f", "g", "h", "i", "j", "k", "l", "m", "n",
      "o", "p", "q", "r", "s", "t", "u", "v", "w", "x", "y", "z">>

uppercase ==
    <<"A", "B", "C", "D", "E", "F", "G", "H", "I", "J", "K", "L", "M", "N",
      "O", "P", "Q", "R", "S", "T", "U", "V", "W", "X", "Y", "Z">>

numbers ==
    <<"0", "1", "2", "3", "4", "5", "6", "7", "8", "9">>

symbols ==
    <<"!", "@", "#", "$", "%", "^", "&", "*", "(", ")", "_", "+", "-", "=",
      "[", "]", "{", "}", "|", ";", ":", ",", ".", "<", ">", "?">>

\* z.object({length, include_uppercase, include_lowercase, include_numbers,
\* include_symbols, exclude_ambiguous})
GeneratePasswordInputs(lengths) ==
    [length : lengths, include_uppercase : BOOLEAN,
     include_lowercase : BOOLEAN, include_numbers : BOOLEAN,
     include_symbols : BOOLEAN, exclude_ambiguous : BOOLEAN]

\* randomBytes(length): one byte per character
RandomBytes == (0..GenMaxByte) \cup {255}

\* charset.replace(/[0Ol1Il]/g, '')
removeAmbiguous(charset) ==
    SelectSeq(charset, LAMBDA c : c \notin {"0", "O", "l", "1", "I"})

\* (buildCharset leaving the ambiguous characters in)
buildCharsetWithAmbiguous(input) ==
    (IF input.include_lowercase THEN lowercase ELSE <<>>)
      \o (IF input.include_uppercase THEN uppercase ELSE <<>>)
      \o (IF input.include_numbers THEN numbers ELSE <<>>)
      \o (IF input.include_symbols THEN symbols ELSE <<>>)

buildCharset(input) ==
    LET charset ==
          (IF input.include_lowercase THEN lowercase ELSE <<>>)
            \o (IF input.include_uppercase THEN uppercase ELSE <<>>)
            \o (IF input.include_numbers THEN numbers ELSE <<>>)
            \o (IF input.include_symbols THEN symbols ELSE <<>>)
    IN IF input.exclude_ambiguous THEN removeAmbiguous(charset) ELSE charset

\* password[i] = charset[randomValues[i] % charsetLength]
generateSecurePassword(length, charset, randomValues) ==
    [i \in 1..length |-> charset[(randomValues[i] % Len(charset)) + 1]]

calculatePasswordStrength(password, input) ==
    LET length == Len(password)
        charTypes ==
          Cardinality({f \in {"include_lowercase", "include_uppercase",
                              "include_numbers", "include_symbols"} :
                         input[f]})
        score ==
          Cardinality({n \in {8, 12, 16, 20, 24} : length >= n})
            + Cardinality({n \in {2, 3, 4} : charTypes >= n})
    IN IF score <= 1 THEN "weak"
       ELSE IF score <= 3 THEN "fair"
       ELSE IF score <= 5 THEN "good"
       ELSE IF score <= 7 THEN "strong"
       ELSE "very_strong"

generatePassword(input, randomValues) ==
    /\ LET charset == buildCharset(input) IN
         last' =
           IF Len(charset) = 0
           THEN [op |-> "generatePassword", in |-> input,
                 res |-> "NoCharacterTypes"]
           ELSE LET password ==
                      generateSecurePassword(input.length, charset,
                                             randomValues) IN
                [op |-> "generatePassword", in |-> input, res |-> "ok",
                 out |-> [password |-> password,
                          strength |->
                            calculatePasswordStrength(password, input)]]
    /\ UNCHANGED <<tables, req>>

ItemCreators == {"createPasswordEntry", "createSecureNote", "createCreditCard"}

ItemCount(pe, sn, cc) == Cardinality(pe) + Cardinality(sn) + Cardinality(cc)

\* ---- sharing runs: every call is made after the previous one returned ----
Next ==
    \/ /\ Cardinality(usersTable) < MaxUsers
       /\ Cardinality(vaultsTable) < MaxVaults
       /\ createUser(NewUserInput, 1, FreshKey)
    \/ \E owner_id \in 1..MaxUsers :
         /\ createVault(owner_id, FreshKey)
         /\ Cardinality(vaultsTable') <= MaxVaults
    \/ \E input \in ShareVaultInputs(MaxSharedVault, MaxUsers) :
         /\ shareVault(input)
         /\ Cardinality(vaultSharingTable') <= MaxShares

Spec == Init /\ [][Next]_vars

\* ---- item-creation runs, calls again one after the other ----
ItemNext ==
    \/ /\ Cardinality(usersTable) < ItemMaxUsers
       /\ Cardinality(vaultsTable) < ItemMaxVaults
       /\ createUser(NewUserInput, 1, FreshKey)
    \/ \E owner_id \in 1..ItemMaxUsers :
         /\ createVault(owner_id, FreshKey)
         /\ Cardinality(vaultsTable') <= ItemMaxVaults
    \/ \E vault_id \in 1..ItemMaxVaults :
         /\ createCategory(vault_id)
         /\ Cardinality(categoriesTable') <= MaxCategories
    \/ \E input \in ShareVaultInputs(ItemMaxVaults, ItemMaxUsers) :
         /\ shareVault(input)
         /\ Cardinality(vaultSharingTable') <= ItemMaxShares
    \/ \E input \in PasswordEntryInputs(ItemMaxVaults, ItemMaxUsers, {1},
                                        {1}, {Null}) :
         /\ createPasswordEntry(input)
         /\ ItemCount(passwordEntriesTable', secureNotesTable',
                      creditCardsTable') <= MaxItems
    \/ \E input \in SecureNoteInputs(ItemMaxVaults, ItemMaxUsers, {1}, {1}) :
         /\ createSecureNote(input, FreshIV)
         /\ ItemCount(passwordEntriesTable', secureNotesTable',
                      creditCardsTable') <= MaxItems
    \/ \E input \in CreditCardInputs(ItemMaxVaults, ItemMaxUsers, {1}, {1}) :
         /\ createCreditCard(input, FreshIV, FreshIV + 1)
         /\ ItemCount(passwordEntriesTable', secureNotesTable',
                      creditCardsTable') <= MaxItems

ItemSpec == Init /\ [][ItemNext]_vars

\* ---- category runs: grants, then categories created by any client ----
CategoryNext ==
    \/ /\ Cardinality(usersTable) < ItemMaxUsers
       /\ Cardinality(vaultsTable) < ItemMaxVaults
       /\ createUser(NewUserInput, 1, FreshKey)
    \/ \E owner_id \in 1..ItemMaxUsers :
         /\ createVault(owner_id, FreshKey)
         /\ Cardinality(vaultsTable') <= ItemMaxVaults
    \/ \E input \in ShareVaultInputs(ItemMaxVaults, ItemMaxUsers) :
         /\ shareVault(input)
         /\ Cardinality(vaultSharingTable') <= ItemMaxShares
    \/ \E caller \in {Null} \cup (1..ItemMaxUsers) :
         \E vault_id \in 1..ItemMaxVaults :
           /\ createCategoryRoute(caller, vault_id)
           /\ Cardinality(categoriesTable') <= MaxCategories

CategorySpec == Init /\ [][CategoryNext]_vars

\* ---- runs of every operation that writes a table or reads a vault ----
ApiNext ==
    \/ /\ Cardinality(usersTable) < ApiMaxUsers
       /\ Cardinality(vaultsTable) < ApiMaxVaults
       /\ createUser(NewUserInput, 1, FreshKey)
    \/ \E owner_id \in 1..ApiMaxUsers :
         /\ createVault(owner_id, FreshKey)
         /\ Cardinality(vaultsTable') <= ApiMaxVaults
    \/ \E vault_id \in 1..ApiTargetVault :
         /\ createCategory(vault_id)
         /\ Cardinality(categoriesTable') <= MaxCategories
    \/ \E input \in ShareVaultInputs(ApiTargetVault, ApiMaxUsers) :
         /\ shareVault(input)
         /\ Cardinality(vaultSharingTable') <= ItemMaxShares
    \/ \E input \in PasswordEntryInputs(ApiTargetVault, ApiMaxUsers, {1},
                                        {1}, {Null}) :
         /\ createPasswordEntry(input)
         /\ ItemCount(passwordEntriesTable', secureNotesTable',
                      creditCardsTable') <= MaxItems
    \/ \E input \in SecureNoteInputs(ApiTargetVault, ApiMaxUsers, {1}, {1}) :
         /\ createSecureNote(input, FreshIV)
         /\ ItemCount(passwordEntriesTable', secureNotesTable',
                      creditCardsTable') <= MaxItems
    \/ \E input \in CreditCardInputs(ApiTargetVault, ApiMaxUsers, {1}, {1}) :
         /\ createCreditCard(input, FreshIV, FreshIV + 1)
         /\ ItemCount(passwordEntriesTable', secureNotesTable',
                      creditCardsTable') <= MaxItems
    \/ \E input \in Enable2FAInputs(ApiMaxUsers, {1}) :
         /\ enable2FA(input)
         /\ Cardinality({u \in usersTable' : u.two_factor_enabled})
              <= MaxEnrolled
    \/ \E userId \in 1..ApiMaxUsers : getUserVaults(userId)

ApiSpec == Init /\ [][ApiNext]_vars

\* ---- shareVault as concurrent clients run it: one step per awaited query ----
\* a request's result and the end of its run
Return(r, res) == [pc |-> "done", in |-> req[r].in, res |-> res]

\* the checks between the admin check and the existing-share query, which
\* run without touching the store
afterAdminCheck(r, owner_id) ==
    LET input == req[r].in IN
    IF isSelfShare(input) THEN Return(r, "CannotShareWithSelf")
    ELSE IF isOwnerShare(owner_id, input)
    THEN Return(r, "CannotShareWithOwner")
    ELSE [req[r] EXCEPT !.pc = "selectExistingShare"]

svCall(r, input) ==
    /\ req[r].pc \in {"idle", "done"}
    /\ req' = [req EXCEPT ![r] = [pc |-> "selectVault", in |-> input]]
    /\ UNCHANGED <<tables, last>>

svSelectVault(r) ==
    /\ req[r].pc = "selectVault"
    /\ LET vault == SelectVault(req[r].in.vault_id) IN
         req' = [req EXCEPT ![r] =
                   IF vault = {} THEN Return(r, "VaultNotFound")
                   ELSE [pc |-> "selectTarget", in |-> req[r].in,
                         owner_id |-> (CHOOSE x \in vault : TRUE).owner_id]]
    /\ UNCHANGED <<tables, last>>

svSelectTarget(r) ==
    /\ req[r].pc = "selectTarget"
    /\ req' = [req EXCEPT ![r] =
                 IF SelectUser(req[r].in.shared_with_user_id) = {}
                 THEN Return(r, "TargetUserNotFound")
                 ELSE [req[r] EXCEPT !.pc = "selectActor"]]
    /\ UNCHANGED <<tables, last>>

svSelectActor(r) ==
    /\ req[r].pc = "selectActor"
    /\ req' = [req EXCEPT ![r] =
                 IF SelectUser(req[r].in.shared_by_user_id) = {}
                 THEN Return(r, "ActingUserNotFound")
                 ELSE IF req[r].owner_id = req[r].in.shared_by_user_id
                 THEN afterAdminCheck(r, req[r].owner_id)
                 ELSE [req[r] EXCEPT !.pc = "selectAdminShare"]]
    /\ UNCHANGED <<tables, last>>

svSelectAdminShare(r) ==
    /\ req[r].pc = "selectAdminShare"
    /\ req' = [req EXCEPT ![r] =
                 IF SelectAdminShare(req[r].in.vault_id,
                                     req[r].in.shared_by_user_id) = {}
                 THEN Return(r, "InsufficientPermissions")
                 ELSE afterAdminCheck(r, req[r].owner_id)]
    /\ UNCHANGED <<tables, last>>

svSelectExistingShare(r) ==
    /\ req[r].pc = "selectExistingShare"
    /\ req' = [req EXCEPT ![r] =
                 IF SelectExistingShare(req[r].in.vault_id,
                                        req[r].in.shared_with_user_id) # {}
                 THEN Return(r, "AlreadyShared")
                 ELSE [req[r] EXCEPT !.pc = "insert"]]
    /\ UNCHANGED <<tables, last>>

\* the table has no unique index on (vault_id, shared_with_user_id), and the
\* rows its foreign keys point to are never deleted: the insert goes through
svInsert(r) ==
    /\ req[r].pc = "insert"
    /\ vaultSharingTable' = vaultSharingTable \cup {SharingRow(req[r].in)}
    /\ req' = [req EXCEPT ![r] = Return(r, "ok")]
    /\ UNCHANGED <<usersTable, vaultsTable, categoriesTable, itemTables, last>>

\* requests that may still insert a row
InFlight == {r \in Requests : req[r].pc \notin {"idle", "done"}}

ConcNext ==
    \/ /\ Cardinality(usersTable) < ConcMaxUsers
       /\ createUser(NewUserInput, 1, FreshKey)
    \/ \E r \in Requests :
         \E input \in ShareVaultInputs(ConcSharedVault, ConcMaxUsers) :
           /\ Cardinality(vaultSharingTable) + Cardinality(InFlight)
                < ConcMaxShares
           /\ svCall(r, input)
    \/ \E r \in Requests : svSelectVault(r)
    \/ \E r \in Requests : svSelectTarget(r)
    \/ \E r \in Requests : svSelectActor(r)
    \/ \E r \in Requests : svSelectAdminShare(r)
    \/ \E r \in Requests : svSelectExistingShare(r)
    \/ \E r \in Requests : svInsert(r)

ConcSpec == Init /\ [][ConcNext]_vars

\* ---- encryption runs: items with secrets, created one after the other ----
\* the inputs that name no category
Uncategorised(inputs) == {i \in inputs : i.category_id = Null}

EncNext ==
    \/ /\ Cardinality(usersTable) < EncMaxUsers
       /\ createUser(NewUserInput, 1, FreshKey)
    \/ \E input \in Uncategorised(PasswordEntryInputs(
                        EncMaxUsers, EncMaxUsers, 1..EncMaxTexts,
                        {1}, {Null})) :
         /\ createPasswordEntry(input)
         /\ ItemCount(passwordEntriesTable', secureNotesTable',
                      creditCardsTable') <= EncMaxItems
    \/ \E input \in Uncategorised(SecureNoteInputs(
                        EncMaxUsers, EncMaxUsers, 1..EncMaxTexts, {1})) :
         /\ createSecureNote(input, FreshIV)
         /\ ItemCount(passwordEntriesTable', secureNotesTable',
                      creditCardsTable') <= EncMaxItems
    \/ \E input \in Uncategorised(CreditCardInputs(
                        EncMaxUsers, EncMaxUsers, 1..EncMaxTexts, {1})) :
         /\ createCreditCard(input, FreshIV, FreshIV + 1)
         /\ ItemCount(passwordEntriesTable', secureNotesTable',
                      creditCardsTable') <= EncMaxItems

EncSpec == Init /\ [][EncNext]_vars

\* ---- account runs: sign-ups and enrolments, one call after the other ----
AccountNext ==
    \/ \E input \in UserInputs(1..AccountMaxEmails, {1}) :
         /\ createUser(input, 1, FreshKey)
         /\ Cardinality(usersTable') <= AccountMaxUsers
    \/ \E input \in Enable2FAInputs(AccountMaxUsers,
                                     {EmptyString} \cup (1..AccountMaxSecrets)) :
         enable2FA(input)

AccountSpec == Init /\ [][AccountNext]_vars

\* ---- login runs: accounts as the handler's tests insert them, then
\* enrolments and logins, one call after the other ----
\* two_factor_enabled and two_factor_secret of the inserted accounts:
\* testUser, testUser2FA and the one with 2FA enabled but no secret
TwoFactorFixtures ==
    {[enabled |-> FALSE, secret |-> Null],
     [enabled |-> TRUE, secret |-> 1],
     [enabled |-> TRUE, secret |-> Null]}

\* db.insert(usersTable).values({..., password_hash: testPasswordHash, ...})
FixtureUsers(twoFactor) ==
    {[id |-> i, email |-> i, password_hash |-> hashPassword(1),
      two_factor_enabled |-> twoFactor[i].enabled,
      two_factor_secret |-> twoFactor[i].secret] :
        i \in DOMAIN twoFactor}

AuthInit ==
    /\ \E twoFactor \in [1..AuthMaxUsers -> TwoFactorFixtures] :
         usersTable = FixtureUsers(twoFactor)
    /\ vaultsTable = {}
    /\ categoriesTable = {}
    /\ passwordEntriesTable = {}
    /\ secureNotesTable = {}
    /\ creditCardsTable = {}
    /\ vaultSharingTable = {}
    /\ last = [op |-> "none", res |-> "ok"]
    /\ req = [r \in Requests |-> IdleRequest]

AuthSecrets == {EmptyString} \cup (1..AuthMaxSecrets)

AuthNext ==
    \/ \E input \in Enable2FAInputs(AuthMaxUsers, AuthSecrets) :
         enable2FA(input)
    \/ \E input \in LoginInputs(1..(AuthMaxUsers + 1), {1, 2}, AuthSecrets,
                                 1..AuthMaxWindows) :
         \E now \in 1..AuthMaxWindows : authenticateUser(input, now)

AuthSpec == AuthInit /\ [][AuthNext]_vars

\* ---- sign-up-then-login runs: accounts made by createUser, then logins ----
SigninNext ==
    \/ \E input \in UserInputs(1..SigninMaxUsers, 1..SigninMaxPasswords) :
         \E salt \in 1..SigninMaxSalts :
           /\ createUser(input, salt, FreshKey)
           /\ Cardinality(usersTable') <= SigninMaxUsers
    \/ \E input \in Enable2FAInputs(SigninMaxUsers, {1}) : enable2FA(input)
    \/ \E input \in LoginInputs(1..SigninMaxUsers, 1..SigninMaxPasswords,
                                 {1}, {1}) :
         authenticateUser(input, 1)

SigninSpec == Init /\ [][SigninNext]_vars

\* ---- search runs: items with titles and names, then searches ----
\* the password entries with at most one of the optional fields given
OneOptional(inputs) ==
    {i \in inputs :
        Cardinality({f \in {"username", "url", "notes"} : i[f] # Null}) <= 1}

\* the queries: the empty one and those of a single character
SearchQueries ==
    {EmptyString} \cup {x \in DOMAIN SearchTexts : Len(SearchTexts[x]) = 1}

SearchNext ==
    \/ /\ Cardinality(usersTable) < SearchMaxUsers
       /\ createUser(NewUserInput, 1, FreshKey)
    \/ \E vault_id \in 1..SearchMaxUsers :
         /\ createCategory(vault_id)
         /\ Cardinality(categoriesTable') <= MaxCategories
    \/ \E input \in OneOptional(PasswordEntryInputs(
                        SearchMaxUsers, SearchMaxUsers, {1},
                        1..SearchMaxTitles, {Null, 1})) :
         /\ createPasswordEntry(input)
         /\ ItemCount(passwordEntriesTable', secureNotesTable',
                      creditCardsTable') <= SearchMaxItems
    \/ \E input \in SecureNoteInputs(SearchMaxUsers, SearchMaxUsers, {1},
                                      1..SearchMaxTitles) :
         /\ createSecureNote(input, FreshIV)
         /\ ItemCount(passwordEntriesTable', secureNotesTable',
                      creditCardsTable') <= SearchMaxItems
    \/ \E input \in CreditCardInputs(SearchMaxUsers, SearchMaxUsers, {1},
                                      1..SearchMaxTitles) :
         /\ createCreditCard(input, FreshIV, FreshIV + 1)
         /\ ItemCount(passwordEntriesTable', secureNotesTable',
                      creditCardsTable') <= SearchMaxItems
    \/ \E input \in SearchInputs(SearchQueries, 1..(SearchMaxUsers + 1),
                                  1..MaxCategories) :
         searchItems(input)

SearchSpec == Init /\ [][SearchNext]_vars

\* ---- vault-reading runs: items in and out of categories, then reads ----
\* z.object({vaultId: z.number(), categoryId: z.number().optional()})
VaultItemsInputs(vaults, categories) ==
    {[vaultId |-> v] @@ c :
        v \in vaults, c \in Optional("categoryId", categories)}

BrowseNext ==
    \/ /\ Cardinality(usersTable) < BrowseMaxUsers
       /\ createUser(NewUserInput, 1, FreshKey)
    \/ \E vault_id \in 1..BrowseMaxUsers :
         /\ createCategory(vault_id)
         /\ Cardinality(categoriesTable') <= MaxCategories
    \/ \E input \in PasswordEntryInputs(BrowseMaxUsers, BrowseMaxUsers, {1},
                                        {1}, {Null}) :
         /\ createPasswordEntry(input)
         /\ ItemCount(passwordEntriesTable', secureNotesTable',
                      creditCardsTable') <= BrowseMaxItems
    \/ \E input \in SecureNoteInputs(BrowseMaxUsers, BrowseMaxUsers, {1},
                                     {1}) :
         /\ createSecureNote(input, FreshIV)
         /\ ItemCount(passwordEntriesTable', secureNotesTable',
                      creditCardsTable') <= BrowseMaxItems
    \/ \E input \in CreditCardInputs(BrowseMaxUsers, BrowseMaxUsers, {1},
                                     {1}) :
         /\ createCreditCard(input, FreshIV, FreshIV + 1)
         /\ ItemCount(passwordEntriesTable', secureNotesTable',
                      creditCardsTable') <= BrowseMaxItems
    \/ \E input \in VaultItemsInputs(1..(BrowseMaxUsers + 1),
                                      1..(MaxCategories + 1)) :
         getVaultItems(input)

BrowseSpec == Init /\ [][BrowseNext]_vars

\* ---- password-generation runs: a client holds one input and sends it
\* again and again, the random bytes differing from call to call ----
GenInit ==
    /\ usersTable = {}
    /\ vaultsTable = {}
    /\ categoriesTable = {}
    /\ passwordEntriesTable = {}
    /\ secureNotesTable = {}
    /\ creditCardsTable = {}
    /\ vaultSharingTable = {}
    /\ last = [op |-> "none", res |-> "ok"]
    /\ \E input \in
           GeneratePasswordInputs(MinPasswordLength..GenMaxLength) :
         req = [r \in Requests |->
                  IF r = 1 THEN [pc |-> "generatePassword", in |-> input]
                  ELSE IdleRequest]

GenNext ==
    \E randomValues \in [1..req[1].in.length -> RandomBytes] :
      generatePassword(req[1].in, randomValues)

GenSpec == GenInit /\ [][GenNext]_vars

\* ---- vault-listing runs: users, vaults and sharing rows as the handler's
\* tests insert them, then listings ----
\* db.insert(vaultsTable).values({..., owner_id, encryption_key})
FixtureVaults(owners) ==
    {[id |-> i, owner_id |-> owners[i], encryption_key |-> i] :
        i \in DOMAIN owners}

\* db.insert(vaultSharingTable).values({...}), one row after the other
FixtureShares(shares) ==
    {[id |-> i] @@ shares[i] : i \in DOMAIN shares}

ListInit ==
    /\ usersTable =
         FixtureUsers([i \in 1..ListMaxUsers |->
                          [enabled |-> FALSE, secret |-> Null]])
    /\ \E owners \in [1..ListMaxVaults -> 1..ListMaxUsers] :
         vaultsTable = FixtureVaults(owners)
    /\ \E n \in 0..ListMaxShares :
         \E shares \in [1..n -> [vault_id : 1..ListMaxVaults,
                                 shared_with_user_id : 1..ListMaxUsers,
                                 shared_by_user_id : 1..ListMaxUsers,
                                 permission_level : PermissionLevels]] :
           vaultSharingTable = FixtureShares(shares)
    /\ categoriesTable = {}
    /\ passwordEntriesTable = {}
    /\ secureNotesTable = {}
    /\ creditCardsTable = {}
    /\ last = [op |-> "none", res |-> "ok"]
    /\ req = [r \in Requests |-> IdleRequest]

ListNext ==
    \E userId \in 1..(ListMaxUsers + 1) : getUserVaults(userId)

ListSpec == ListInit /\ [][ListNext]_vars

\* ---- the item creators as concurrent clients run them: one step per
\* awaited query ----
\* throw ...: the catch block logs and rethrows
ItemReturn(r, res) ==
    [pc |-> "done", op |-> req[r].op, in |-> req[r].in, res |-> res]

\* createCreditCard looks the user up first, the other two the vault
icCall(r, op, input) ==
    /\ req[r].pc = "idle"
    /\ req' = [req EXCEPT ![r] =
                 [pc |-> IF op = "createCreditCard" THEN "selectUser"
                         ELSE "selectVault",
                  op |-> op, in |-> input]]
    /\ UNCHANGED <<tables, last>>

\* if (input.category_id) { ...select the category... }, else the insert
afterAccess(r) ==
    [req[r] EXCEPT !.pc = IF req[r].in.category_id # Null
                          THEN "selectCategory" ELSE "insert"]

\* the vault row; createSecureNote goes on to the user, the other two to
\* the sharing rows unless vault.owner_id === input.created_by
icSelectVault(r) ==
    /\ req[r].pc = "selectVault"
    /\ LET vaults == SelectVault(req[r].in.vault_id) IN
         req' = [req EXCEPT ![r] =
                   IF vaults = {} THEN ItemReturn(r, "VaultNotFound")
                   ELSE LET vault == CHOOSE x \in vaults : TRUE
                            read == [req[r] EXCEPT !.pc = "selectShare"]
                                      @@ [vault |-> vault] IN
                        IF req[r].op = "createSecureNote"
                        THEN [read EXCEPT !.pc = "selectUser"]
                        ELSE IF vault.owner_id = req[r].in.created_by
                        THEN afterAccess(r) @@ [vault |-> vault]
                        ELSE read]
    /\ UNCHANGED <<tables, last>>

\* the acting user's row (createSecureNote, createCreditCard)
icSelectUser(r) ==
    /\ req[r].pc = "selectUser"
    /\ req' = [req EXCEPT ![r] =
                 IF SelectUser(req[r].in.created_by) = {}
                 THEN ItemReturn(r, "UserNotFound")
                 ELSE [req[r] EXCEPT !.pc =
                         IF req[r].op = "createSecureNote"
                         THEN "selectAccess" ELSE "selectVault"]]
    /\ UNCHANGED <<tables, last>>

\* the actor's write/admin sharing rows (createPasswordEntry,
\* createCreditCard)
icSelectShare(r) ==
    /\ req[r].pc = "selectShare"
    /\ req' = [req EXCEPT ![r] =
                 IF SelectWriteShare(req[r].in.vault_id,
                                     req[r].in.created_by) = {}
                 THEN ItemReturn(r, "InsufficientPermissions")
                 ELSE afterAccess(r)]
    /\ UNCHANGED <<tables, last>>

\* createSecureNote's joined access query
icSelectAccess(r) ==
    /\ req[r].pc = "selectAccess"
    /\ req' = [req EXCEPT ![r] =
                 IF SecureNoteAccessRows(req[r].in.vault_id,
                                         req[r].in.created_by) = {}
                 THEN ItemReturn(r, "InsufficientPermissions")
                 ELSE afterAccess(r)]
    /\ UNCHANGED <<tables, last>>

icSelectCategory(r) ==
    /\ req[r].pc = "selectCategory"
    /\ req' = [req EXCEPT ![r] =
                 IF categoryMissing(req[r].in)
                 THEN ItemReturn(r, "CategoryNotFound")
                 ELSE [req[r] EXCEPT !.pc = "insert"]]
    /\ UNCHANGED <<tables, last>>

\* the insert, encrypting under the key of the vault row read before;
\* createPasswordEntry has not looked the user up, so its insert is the
\* one that can break created_by's reference to usersTable
icInsert(r, iv) ==
    /\ req[r].pc = "insert"
    /\ LET input == req[r].in
           key == req[r].vault.encryption_key
           row == CASE req[r].op = "createPasswordEntry" ->
                         PasswordEntryRow(input, key)
                    [] req[r].op = "createSecureNote" ->
                         SecureNoteRow(input, key, iv)
                    [] req[r].op = "createCreditCard" ->
                         CreditCardRow(input, key, iv, iv + 1)
           res == IF SelectUser(input.created_by) = {}
                  THEN "ForeignKeyViolation" ELSE "ok" IN
         /\ passwordEntriesTable' =
              IF res = "ok" /\ req[r].op = "createPasswordEntry"
              THEN passwordEntriesTable \cup {row} ELSE passwordEntriesTable
         /\ secureNotesTable' =
              IF res = "ok" /\ req[r].op = "createSecureNote"
              THEN secureNotesTable \cup {row} ELSE secureNotesTable
         /\ creditCardsTable' =
              IF res = "ok" /\ req[r].op = "createCreditCard"
              THEN creditCardsTable \cup {row} ELSE creditCardsTable
         /\ req' = [req EXCEPT ![r] =
                      IF res = "ok"
                      THEN ItemReturn(r, res) @@ [out |-> row]
                      ELSE ItemReturn(r, res)]
    /\ UNCHANGED <<usersTable, vaultsTable, categoriesTable,
                   vaultSharingTable, last>>

\* the accounts, grants and categories are there (the calls that set them
\* up succeeded) before the two clients send their requests
NoRequestYet == \A r \in Requests : req[r].pc = "idle"

RaceInputs(op) ==
    CASE op = "createPasswordEntry" ->
           PasswordEntryInputs(RaceTargetVault, RaceMaxUsers, {1}, {1},
                               {Null})
      [] op = "createSecureNote" ->
           SecureNoteInputs(RaceTargetVault, RaceMaxUsers, {1}, {1})
      [] op = "createCreditCard" ->
           CreditCardInputs(RaceTargetVault, RaceMaxUsers, {1}, {1})

RaceNext ==
    \/ /\ NoRequestYet
       /\ Cardinality(usersTable) < RaceMaxUsers
       /\ createUser(NewUserInput, 1, FreshKey)
    \/ /\ NoRequestYet
       /\ \E input \in ShareVaultInputs(RaceTargetVault, RaceMaxUsers) :
            /\ shareVault(input)
            /\ last'.res = "ok"
            /\ Cardinality(vaultSharingTable') <= RaceMaxShares
    \/ /\ NoRequestYet
       /\ \E vault_id \in 1..RaceTargetVault :
            /\ createCategory(vault_id)
            /\ last'.res = "ok"
            /\ Cardinality(categoriesTable') <= MaxCategories
    \/ \E r \in Requests, op \in ItemCreators :
         \E input \in RaceInputs(op) : icCall(r, op, input)
    \/ \E r \in Requests : icSelectVault(r)
    \/ \E r \in Requests : icSelectUser(r)
    \/ \E r \in Requests : icSelectShare(r)
    \/ \E r \in Requests : icSelectAccess(r)
    \/ \E r \in Requests : icSelectCategory(r)
    \/ \E r \in Requests : icInsert(r, FreshIV)

RaceSpec == Init /\ [][RaceNext]_vars

\* ---- createUser as concurrent clients run it: one step per awaited insert ----
cuCall(r, input) ==
    /\ req[r].pc \in {"idle", "done"}
    /\ req' = [req EXCEPT ![r] = [pc |-> "insertUser", in |-> input]]
    /\ UNCHANGED <<tables, last>>

\* await db.insert(usersTable)...returning(): the row, or the unique
\* violation, which the catch block rethrows
cuInsertUser(r, salt) ==
    /\ req[r].pc = "insertUser"
    /\ LET res == createUserResult(req[r].in)
           user == UserRow(req[r].in, salt) IN
         /\ usersTable' =
              IF res = "ok" THEN usersTable \cup {user} ELSE usersTable
         /\ req' = [req EXCEPT ![r] =
                      IF res = "ok"
                      THEN [pc |-> "insertVault", in |-> req[r].in,
                            user |-> user]
                      ELSE Return(r, res)]
    /\ UNCHANGED <<vaultsTable, categoriesTable, itemTables,
                   vaultSharingTable, last>>

\* await db.insert(vaultsTable)...execute(); return user
cuInsertVault(r, encryptionKey) ==
    /\ req[r].pc = "insertVault"
    /\ vaultsTable' =
         vaultsTable \cup {VaultRow(req[r].user.id, encryptionKey)}
    /\ req' = [req EXCEPT ![r] = Return(r, "ok")]
    /\ UNCHANGED <<usersTable, categoriesTable, itemTables,
                   vaultSharingTable, last>>

\* the vault insert rejects (the store is gone): the catch block logs and
\* rethrows, and nothing takes the user row back
cuInsertVaultThrows(r) ==
    /\ req[r].pc = "insertVault"
    /\ req' = [req EXCEPT ![r] = Return(r, "InsertFailed")]
    /\ UNCHANGED <<tables, last>>

SignupNext ==
    \/ \E r \in Requests :
         \E input \in UserInputs(1..SignupMaxEmails, {1}) :
           /\ Cardinality(usersTable)
                + Cardinality({q \in Requests : req[q].pc = "insertUser"})
                < SignupMaxUsers
           /\ cuCall(r, input)
    \/ \E r \in Requests : cuInsertUser(r, 1)
    \/ \E r \in Requests : cuInsertVault(r, FreshKey)
    \/ \E r \in Requests : cuInsertVaultThrows(r)

SignupSpec == Init /\ [][SignupNext]_vars

\* ======================= properties =======================
\* Authority as section 4.1 states it, read off the tables.
VaultExists(vault_id) == \E v \in vaultsTable : v.id = vault_id

UserExists(user_id) == \E u \in usersTable : u.id = user_id

IsOwner(vault_id, user_id) ==
    \E v \in vaultsTable : v.id = vault_id /\ v.owner_id = user_id

HoldsLevel(vault_id, user_id, levels) ==
    \E s \in vaultSharingTable : /\ s.vault_id = vault_id
                                 /\ s.shared_with_user_id = user_id
                                 /\ s.permission_level \in levels

WriteAuthority(vault_id, user_id) ==
    IsOwner(vault_id, user_id)
      \/ HoldsLevel(vault_id, user_id, {"write", "admin"})

AdminAuthority(vault_id, user_id) ==
    IsOwner(vault_id, user_id) \/ HoldsLevel(vault_id, user_id, {"admin"})

SharedWith(vault_id, user_id) ==
    HoldsLevel(vault_id, user_id, PermissionLevels)

ItemOps == {"createPasswordEntry", "createSecureNote", "createCreditCard"}

\* C1: two concurrent shareVault requests for one (vault, target) pair never
\* both succeed, and vault_sharing never holds two rows for one pair.
C1_ConcurrentShareOnce ==
    /\ \A s1, s2 \in vaultSharingTable :
         (/\ s1.vault_id = s2.vault_id
          /\ s1.shared_with_user_id = s2.shared_with_user_id) => s1 = s2
    /\ \A r1, r2 \in Requests :
         (/\ r1 # r2
          /\ req[r1].pc = "done" /\ req[r2].pc = "done"
          /\ req[r1].in.vault_id = req[r2].in.vault_id
          /\ req[r1].in.shared_with_user_id = req[r2].in.shared_with_user_id)
         => ~(req[r1].res = "ok" /\ req[r2].res = "ok")

\* C2: an item creator persists a row only for an actor who owns the vault
\* or holds write or admin on it; with vault and actor existing, an actor
\* without that authority gets InsufficientPermissions and no row is added.
C2_ItemsNeedWriteAuthority ==
    [][/\ itemTables' # itemTables =>
            /\ last'.op \in ItemOps
            /\ last'.res = "ok"
            /\ WriteAuthority(last'.in.vault_id, last'.in.created_by)
       /\ (/\ last'.op \in ItemOps
           /\ VaultExists(last'.in.vault_id)
           /\ UserExists(last'.in.created_by)
           /\ ~WriteAuthority(last'.in.vault_id, last'.in.created_by))
          => /\ last'.res = "InsufficientPermissions"
             /\ UNCHANGED itemTables]_vars

\* a grantee holding only read was refused by createSecureNote
C2_Witness ==
    /\ last.op = "createSecureNote"
    /\ last.res = "InsufficientPermissions"
    /\ HoldsLevel(last.in.vault_id, last.in.created_by, {"read"})

\* C3: shareVault inserts a row only for an actor who owns the vault or
\* holds admin on it; the owner succeeds on a vault without sharing rows;
\* an actor without admin authority gets InsufficientPermissions and the
\* table is unchanged.
C3_ShareNeedsAdminAuthority ==
    [][/\ vaultSharingTable' # vaultSharingTable =>
            /\ last'.op = "shareVault"
            /\ last'.res = "ok"
            /\ AdminAuthority(last'.in.vault_id, last'.in.shared_by_user_id)
       /\ (/\ last'.op = "shareVault"
           /\ IsOwner(last'.in.vault_id, last'.in.shared_by_user_id)
           /\ UserExists(last'.in.shared_with_user_id)
           /\ last'.in.shared_with_user_id # last'.in.shared_by_user_id
           /\ \A s \in vaultSharingTable : s.vault_id # last'.in.vault_id)
          => /\ last'.res = "ok"
             /\ vaultSharingTable' # vaultSharingTable
       /\ (/\ last'.op = "shareVault"
           /\ VaultExists(last'.in.vault_id)
           /\ UserExists(last'.in.shared_with_user_id)
           /\ UserExists(last'.in.shared_by_user_id)
           /\ ~AdminAuthority(last'.in.vault_id, last'.in.shared_by_user_id))
          => /\ last'.res = "InsufficientPermissions"
             /\ UNCHANGED vaultSharingTable]_vars

\* a grantee holding only write was refused
C3_Witness ==
    /\ last.op = "shareVault"
    /\ last.res = "InsufficientPermissions"
    /\ HoldsLevel(last.in.vault_id, last.in.shared_by_user_id, {"write"})

\* C4 as claimed: once (vault, target) is shared, a later shareVault for the
\* pair by any acting admin fails with AlreadyShared and changes no row.
C4_RepeatAlwaysAlreadyShared ==
    [][(/\ last'.op = "shareVault"
        /\ SharedWith(last'.in.vault_id, last'.in.shared_with_user_id)
        /\ AdminAuthority(last'.in.vault_id, last'.in.shared_by_user_id))
       => /\ last'.res = "AlreadyShared"
          /\ UNCHANGED vaultSharingTable]_vars

\* C4 amended: once (vault, target) is shared, a later shareVault for the
\* pair by any acting admin other than the target fails with AlreadyShared
\* and changes no row; the target itself gets CannotShareWithSelf, and the
\* table is unchanged as well.
C4_RepeatAlreadyShared ==
    [][(/\ last'.op = "shareVault"
        /\ SharedWith(last'.in.vault_id, last'.in.shared_with_user_id)
        /\ AdminAuthority(last'.in.vault_id, last'.in.shared_by_user_id))
       => /\ last'.res =
               IF last'.in.shared_by_user_id = last'.in.shared_with_user_id
               THEN "CannotShareWithSelf" ELSE "AlreadyShared"
          /\ UNCHANGED vaultSharingTable]_vars

\* an admin grantee (not the owner) was refused a second grant to a target
C4_Witness ==
    /\ last.op = "shareVault"
    /\ last.res = "AlreadyShared"
    /\ ~IsOwner(last.in.vault_id, last.in.shared_by_user_id)
    /\ Cardinality(vaultSharingTable) >= 2

\* C5: no sharing row is shared with the owner of its vault, and none is
\* shared with the user who granted it.
C5_NoOwnerOrSelfGrant ==
    \A s \in vaultSharingTable :
        /\ ~IsOwner(s.vault_id, s.shared_with_user_id)
        /\ s.shared_with_user_id # s.shared_by_user_id

\* a row granted by an admin grantee, the case where actor and owner differ
C5_Witness ==
    \E s \in vaultSharingTable :
        /\ ~IsOwner(s.vault_id, s.shared_by_user_id)
        /\ last.op = "shareVault" /\ last.res = "ok"

\* The preconditions of section 4.4 in their order, each with its error.
ShareCheckError ==
    <<"VaultNotFound", "TargetUserNotFound", "ActingUserNotFound",
      "InsufficientPermissions", "CannotShareWithSelf",
      "CannotShareWithOwner", "AlreadyShared">>

ShareCheckPasses(k, input) ==
    CASE k = 1 -> VaultExists(input.vault_id)
      [] k = 2 -> UserExists(input.shared_with_user_id)
      [] k = 3 -> UserExists(input.shared_by_user_id)
      [] k = 4 -> AdminAuthority(input.vault_id, input.shared_by_user_id)
      [] k = 5 -> input.shared_with_user_id # input.shared_by_user_id
      [] k = 6 -> ~IsOwner(input.vault_id, input.shared_with_user_id)
      [] k = 7 -> ~SharedWith(input.vault_id, input.shared_with_user_id)

\* the error of the first check from k on that fails
RECURSIVE FirstFailure(_, _)
FirstFailure(k, input) ==
    IF k > Len(ShareCheckError) THEN "ok"
    ELSE IF ~ShareCheckPasses(k, input) THEN ShareCheckError[k]
    ELSE FirstFailure(k + 1, input)

\* C6: shareVault reports the first failing precondition in the order vault,
\* target, actor, authority, self, owner, existing record; an admin grantee
\* sharing with the owner gets CannotShareWithOwner, the owner sharing with
\* themselves CannotShareWithSelf, and an actor without admin authority
\* sharing with the owner InsufficientPermissions.
C6_FirstFailingCheckReported ==
    [][last'.op = "shareVault" =>
         /\ last'.res = FirstFailure(1, last'.in)
         /\ (/\ HoldsLevel(last'.in.vault_id, last'.in.shared_by_user_id,
                           {"admin"})
             /\ ~IsOwner(last'.in.vault_id, last'.in.shared_by_user_id)
             /\ IsOwner(last'.in.vault_id, last'.in.shared_with_user_id))
            => last'.res = "CannotShareWithOwner"
         /\ (/\ IsOwner(last'.in.vault_id, last'.in.shared_by_user_id)
             /\ last'.in.shared_with_user_id = last'.in.shared_by_user_id)
            => last'.res = "CannotShareWithSelf"
         /\ (/\ UserExists(last'.in.shared_by_user_id)
             /\ ~AdminAuthority(last'.in.vault_id,
                                last'.in.shared_by_user_id)
             /\ IsOwner(last'.in.vault_id, last'.in.shared_with_user_id))
            => last'.res = "InsufficientPermissions"]_vars

\* an admin grantee tried to share the vault with its owner
C6_Witness ==
    /\ last.op = "shareVault"
    /\ last.res = "CannotShareWithOwner"
    /\ HoldsLevel(last.in.vault_id, last.in.shared_by_user_id, {"admin"})

\* C7: an item creator called on an existing vault by a user id that does
\* not exist fails with UserNotFound and persists nothing.
C7_MissingActorIsUserNotFound ==
    [][(/\ last'.op \in ItemOps
        /\ VaultExists(last'.in.vault_id)
        /\ ~UserExists(last'.in.created_by))
       => /\ last'.res = "UserNotFound"
          /\ UNCHANGED itemTables]_vars

\* C8: an item creator called with neither the vault nor the acting user
\* existing fails with VaultNotFound.
C8_VaultCheckedBeforeUser ==
    [][(/\ last'.op \in ItemOps
        /\ ~VaultExists(last'.in.vault_id)
        /\ ~UserExists(last'.in.created_by))
       => last'.res = "VaultNotFound"]_vars

CategoryInVault(category_id, vault_id) ==
    \E c \in categoriesTable : c.id = category_id /\ c.vault_id = vault_id

AllItems == passwordEntriesTable \cup secureNotesTable \cup creditCardsTable

\* C10: every stored password entry, secure note and credit card with a
\* category references a category of the item's own vault.
C10_ItemCategoryInSameVault ==
    \A table \in {passwordEntriesTable, secureNotesTable, creditCardsTable} :
        \A item \in table :
            item.category_id # Null =>
                CategoryInVault(item.category_id, item.vault_id)

\* an item with a category is stored, created by a grantee of the vault
C10_Witness ==
    \E item \in AllItems :
        /\ item.category_id # Null
        /\ ~IsOwner(item.vault_id, item.created_by)

\* the rows a call returned
ReturnedRows ==
    IF last.res # "ok" \/ last.op = "none" THEN {}
    ELSE IF last.op = "getUserVaults"
    THEN {last.out[i] : i \in 1..Len(last.out)}
    ELSE {last.out}

\* C14: no operation returns a vault's encryption key to its caller.
C14_NoKeyReturned ==
    \A row \in ReturnedRows :
        "encryption_key" \in DOMAIN row =>
            \A v \in vaultsTable : v.encryption_key # row.encryption_key

\* C15: an existing vault keeps the encryption_key and owner_id it was
\* created with: every step leaves each vault row as it was.
C15_VaultKeyAndOwnerFrozen ==
    [][\A v \in vaultsTable :
         /\ \E w \in vaultsTable' : w.id = v.id
         /\ \A w \in vaultsTable' :
              w.id = v.id => /\ w.encryption_key = v.encryption_key
                             /\ w.owner_id = v.owner_id]_vars

\* an owner with an item and a grant on the first vault has a second vault
C15_Witness ==
    /\ last.op = "createVault" /\ last.res = "ok"
    /\ \E v \in vaultsTable :
         /\ v.id # last.out.id
         /\ v.owner_id = last.out.owner_id
         /\ \E item \in AllItems : item.vault_id = v.id
         /\ \E s \in vaultSharingTable : s.vault_id = v.id

\* C16: createUser is atomic with respect to the default vault: in every
\* reachable state each user has a vault they own (and each vault's owner
\* is a user), also when the vault insert fails or the run stops between
\* the two inserts.
C16_UserAndVaultTogether ==
    /\ \A u \in usersTable : \E v \in vaultsTable : v.owner_id = u.id
    /\ \A v \in vaultsTable : \E u \in usersTable : u.id = v.owner_id

\* C17: createUser with an email that already belongs to a user fails and
\* adds neither a user row nor a vault row; no two users share an email.
C17_EmailUnique ==
    [][/\ (/\ last'.op = "createUser"
           /\ \E u \in usersTable : u.email = last'.in.email)
          => /\ last'.res # "ok"
             /\ UNCHANGED <<usersTable, vaultsTable>>
       /\ \A u1, u2 \in usersTable' :
            u1.email = u2.email => u1.id = u2.id]_vars

\* a sign-up under the address of an enrolled user was refused
C17_Witness ==
    /\ last.op = "createUser"
    /\ last.res = "UniqueViolation"
    /\ \E u \in usersTable :
         u.email = last.in.email /\ u.two_factor_enabled
    /\ Cardinality(usersTable) = Cardinality(vaultsTable)

\* C18: every user has a two_factor_secret that is not null exactly when
\* two_factor_enabled is true.
C18_SecretIffEnabled ==
    \A u \in usersTable :
        (u.two_factor_secret # Null) <=> u.two_factor_enabled

\* one user enrolled with the empty secret beside one who never enrolled
C18_Witness ==
    /\ \E u \in usersTable :
         u.two_factor_enabled /\ u.two_factor_secret = EmptyString
    /\ \E u \in usersTable : ~u.two_factor_enabled
    /\ last.op = "enable2FA" /\ last.res = "ok"

\* the user a login names, with the password that hashes to the stored hash
LoginMatches(u, input) ==
    /\ u.email = input.email
    /\ hashPassword(input.password) = u.password_hash

\* a token is supplied, a secret is stored (a string that is not empty) and
\* the token is the secret's code in the window of the call
SecondFactorPasses(u, input, now) ==
    /\ "two_factor_token" \in DOMAIN input
    /\ u.two_factor_secret \notin {Null, EmptyString}
    /\ input.two_factor_token = expectedToken(u.two_factor_secret, now)

Contains(text, query) ==
    \E k \in 0..Len(text) :
        \A i \in 1..Len(query) :
            /\ k + i <= Len(text)
            /\ Lower(text[k + i]) = Lower(query[i])

\* the plaintext fields a search reads, by result bucket
SearchableFields(bucket) ==
    CASE bucket = "passwordEntries" -> {"title", "username", "url", "notes"}
      [] bucket = "secureNotes" -> {"title"}
      [] bucket = "creditCards" -> {"title", "cardholder_name"}

BucketType(bucket) ==
    CASE bucket = "passwordEntries" -> "password"
      [] bucket = "secureNotes" -> "note"
      [] bucket = "creditCards" -> "credit_card"

BucketTable(bucket) ==
    CASE bucket = "passwordEntries" -> passwordEntriesTable
      [] bucket = "secureNotes" -> secureNotesTable
      [] bucket = "creditCards" -> creditCardsTable

\* the rows section 4.6 asks for
Expected(bucket, input) ==
    IF "type" \in DOMAIN input /\ input.type # BucketType(bucket) THEN {}
    ELSE {row \in BucketTable(bucket) :
            /\ \E f \in SearchableFields(bucket) :
                 /\ row[f] # Null
                 /\ Contains(Chars(row[f]), Chars(input.query))
            /\ "vault_id" \in DOMAIN input => row.vault_id = input.vault_id
            /\ "category_id" \in DOMAIN input
                 => /\ row.category_id # Null
                    /\ row.category_id = input.category_id}

\* C20: for every query, a query of % or _ or of spaces among them, and
\* every combination of filters, searchItems returns exactly the items
\* that have the query as a case-insensitive substring of a searchable
\* field and whose vault_id and category_id equal the filters given; a null
\* category matches no category filter; excluded buckets are empty.
C20_SearchIsSubstringMatch ==
    [][last'.op = "searchItems" =>
         \A bucket \in {"passwordEntries", "secureNotes", "creditCards"} :
            last'.out[bucket] = Expected(bucket, last'.in)]_vars

\* the rows of a bucket that satisfy the type, vault and category filters
Filtered(bucket, input) ==
    IF "type" \in DOMAIN input /\ input.type # BucketType(bucket) THEN {}
    ELSE {row \in BucketTable(bucket) :
            /\ "vault_id" \in DOMAIN input => row.vault_id = input.vault_id
            /\ "category_id" \in DOMAIN input
                 => /\ row.category_id # Null
                    /\ row.category_id = input.category_id}

\* C21: searchItems with the empty query returns every stored item that
\* satisfies the vault_id, category_id and type filters, and with no filter
\* every password entry, secure note and credit card in the store.
C21_EmptyQueryReturnsAll ==
    [][(last'.op = "searchItems" /\ last'.in.query = EmptyString) =>
         /\ \A bucket \in {"passwordEntries", "secureNotes", "creditCards"} :
              last'.out[bucket] = Filtered(bucket, last'.in)
         /\ DOMAIN last'.in = {"query"} =>
              /\ last'.out.passwordEntries = passwordEntriesTable
              /\ last'.out.secureNotes = secureNotesTable
              /\ last'.out.creditCards = creditCardsTable]_vars

\* an empty query with a category filter left out the item without category
C21_Witness ==
    /\ last.op = "searchItems"
    /\ last.in.query = EmptyString
    /\ "category_id" \in DOMAIN last.in
    /\ \E item \in AllItems : item.category_id = Null
    /\ categoriesTable # {}
    /\ \A bucket \in {"passwordEntries", "secureNotes", "creditCards"} :
         last.out[bucket] = {}

\* C22: getUserVaults(userId) returns exactly the vaults the user owns or
\* that have a sharing row with shared_with_user_id = userId, each vault
\* at most once, also when a vault is both owned by and shared with the
\* user or has several sharing rows for the user.
C22_UserVaultsExactlyOnce ==
    [][last'.op = "getUserVaults" =>
         /\ {last'.out[i] : i \in 1..Len(last'.out)}
              = {v \in vaultsTable :
                   \/ v.owner_id = last'.in.userId
                   \/ \E s \in vaultSharingTable :
                        /\ s.vault_id = v.id
                        /\ s.shared_with_user_id = last'.in.userId}
         /\ \A i, j \in 1..Len(last'.out) :
              last'.out[i].id = last'.out[j].id => i = j]_vars

\* the user owns a vault that two sharing rows share with them as well,
\* and has another vault shared
C22_Witness ==
    /\ last.op = "getUserVaults"
    /\ Len(last.out) = 2
    /\ \E v \in vaultsTable :
         /\ v.owner_id = last.in.userId
         /\ Cardinality({s \in vaultSharingTable :
                            /\ s.vault_id = v.id
                            /\ s.shared_with_user_id = last.in.userId}) = 2

\* C23: getVaultItems(vaultId, categoryId?) returns exactly the items with
\* vault_id = vaultId and, when a category is given, category_id =
\* categoryId (items without a category are then left out); for a vault
\* or category that does not exist the three collections are empty and
\* the call does not fail.
C23_VaultItemsExactly ==
    [][last'.op = "getVaultItems" =>
         /\ last'.res = "ok"
         /\ \A bucket \in {"passwordEntries", "secureNotes", "creditCards"} :
              last'.out[bucket] =
                {row \in BucketTable(bucket) :
                    /\ row.vault_id = last'.in.vaultId
                    /\ "categoryId" \in DOMAIN last'.in =>
                         /\ row.category_id # Null
                         /\ row.category_id = last'.in.categoryId}]_vars

\* C24: createCategory is a write-class operation: a category is persisted
\* in a vault only when the caller holds write or admin on that vault (as
\* its owner or through a write/admin sharing row); a caller with read or
\* no permission adds no category.
C24_CategoryNeedsWriteAuthority ==
    [][(last'.op = "createCategory" /\ categoriesTable' # categoriesTable) =>
         WriteAuthority(last'.in.vault_id, last'.caller)]_vars

\* ---- concurrent item creation, section 5 ----
\* the request is one a sequential call would accept: its actor holds
\* write authority on the vault and its category, if any, is the vault's
Authorised(input) ==
    /\ WriteAuthority(input.vault_id, input.created_by)
    /\ input.category_id # Null =>
         CategoryInVault(input.category_id, input.vault_id)

ItemTable(op) ==
    CASE op = "createPasswordEntry" -> passwordEntriesTable
      [] op = "createSecureNote" -> secureNotesTable
      [] op = "createCreditCard" -> creditCardsTable

\* both requests have returned, and they were two authorised creations
\* in one vault
FinishedPair(r1, r2) ==
    /\ r1 # r2
    /\ req[r1].pc = "done" /\ req[r2].pc = "done"
    /\ req[r1].in.vault_id = req[r2].in.vault_id
    /\ Authorised(req[r1].in) /\ Authorised(req[r2].in)

BothPersisted(r1, r2) ==
    /\ req[r1].res = "ok" /\ req[r2].res = "ok"
    /\ req[r1].out \in ItemTable(req[r1].op)
    /\ req[r2].out \in ItemTable(req[r2].op)

\* a step of a request leaves users, vaults, categories and grants as
\* they are, and every item row that exists stays as it is
RequestStepsOnlyAddItems ==
    req' # req =>
      /\ UNCHANGED <<usersTable, vaultsTable, categoriesTable,
                     vaultSharingTable>>
      /\ passwordEntriesTable \subseteq passwordEntriesTable'
      /\ secureNotesTable \subseteq secureNotesTable'
      /\ creditCardsTable \subseteq creditCardsTable'
      /\ ItemCount(passwordEntriesTable', secureNotesTable',
                   creditCardsTable')
           <= ItemCount(passwordEntriesTable, secureNotesTable,
                        creditCardsTable) + 1

C29_GrantsTraceBackToOwner ==
    \A s \in vaultSharingTable :
        /\ AdminAuthority(s.vault_id, s.shared_by_user_id)
        /\ \/ IsOwner(s.vault_id, s.shared_by_user_id)
           \/ \E a \in vaultSharingTable :
                /\ a.vault_id = s.vault_id
                /\ a.shared_with_user_id = s.shared_by_user_id
                /\ a.permission_level = "admin"
                /\ a.id < s.id

\* a grant made by a grantee who holds admin, on a vault they do not own
C29_Witness ==
    \E s \in vaultSharingTable :
        /\ ~IsOwner(s.vault_id, s.shared_by_user_id)
        /\ HoldsLevel(s.vault_id, s.shared_by_user_id, {"admin"})

\* C30: a user that createUser created with (email, password) and that is
\* not enrolled in two-factor can log in: authenticateUser with that email
\* and password returns the user, the hash createUser stored being the
\* one authenticateUser's comparison accepts.
C30_CreatedUserCanLogin ==
    [][last'.op = "authenticateUser" =>
         \A u \in usersTable :
            (/\ u.email = last'.in.email
             /\ \E salt \in 1..SigninMaxSalts :
                  u.password_hash = pbkdf2Hash(last'.in.password, salt)
             /\ ~u.two_factor_enabled)
              => /\ last'.res = "ok"
                 /\ last'.out = u]_vars

\* ---- password generation ----
Ambiguous == {"0", "O", "l", "1", "I"}

Range(f) == {f[i] : i \in DOMAIN f}

\* the characters of the classes the input selects
SelectedCharacters(input) ==
    (IF input.include_lowercase THEN Range(lowercase) ELSE {})
      \cup (IF input.include_uppercase THEN Range(uppercase) ELSE {})
      \cup (IF input.include_numbers THEN Range(numbers) ELSE {})
      \cup (IF input.include_symbols THEN Range(symbols) ELSE {})

\* C28: generatePassword fails with 'no character types selected' exactly
\* when none of the four classes is selected; otherwise it returns a
\* password of the requested length whose characters all belong to the
\* selected classes, none of them one of 0, O, l, 1, I when
\* exclude_ambiguous is set.
C28_GeneratedPasswordFromSelection ==
    last.op = "generatePassword" =>
      IF ~(\/ last.in.include_lowercase \/ last.in.include_uppercase
           \/ last.in.include_numbers \/ last.in.include_symbols)
      THEN last.res = "NoCharacterTypes"
      ELSE /\ last.res = "ok"
           /\ Len(last.out.password) = last.in.length
           /\ \A i \in 1..Len(last.out.password) :
                /\ last.out.password[i] \in SelectedCharacters(last.in)
                /\ last.in.exclude_ambiguous =>
                     last.out.password[i] \notin Ambiguous

\* digits alone without the ambiguous ones: the first character left is 2
C28_Witness ==
    /\ last.op = "generatePassword" /\ last.res = "ok"
    /\ last.in.exclude_ambiguous
    /\ last.in.include_numbers
    /\ ~last.in.include_lowercase /\ ~last.in.include_uppercase
    /\ ~last.in.include_symbols
    /\ \E i \in 1..Len(last.out.password) : last.out.password[i] = "2"

\* ---- failures and writes, section 6 ----
\* the rows a step inserts or updates, over all tables
RowsWritten ==
    Cardinality(usersTable' \ usersTable)
      + Cardinality(vaultsTable' \ vaultsTable)
      + Cardinality(categoriesTable' \ categoriesTable)
      + Cardinality(passwordEntriesTable' \ passwordEntriesTable)
      + Cardinality(secureNotesTable' \ secureNotesTable)
      + Cardinality(creditCardsTable' \ creditCardsTable)
      + Cardinality(vaultSharingTable' \ vaultSharingTable)

\* C26: a call of createVault, createCategory, createPasswordEntry,
\* createSecureNote, createCreditCard, shareVault or enable2FA that fails a
\* precondition leaves every table as it was, and every operation makes
\* at most one persisted write, so that no partially applied state is
\* reachable.
C26_FailuresWriteNothingOneWriteEach ==
    [][/\ (last' # last /\ last'.res # "ok") => UNCHANGED tables
       /\ RowsWritten <= 1]_vars

\* ---- the encryption envelope, section 4.2 ----
\* the secret fields of each creator: <<input field, stored column>>
SecretFields(op) ==
    CASE op = "createPasswordEntry" -> {<<"password", "encrypted_password">>}
      [] op = "createSecureNote" -> {<<"content", "encrypted_content">>}
      [] op = "createCreditCard" ->
           {<<"card_number", "encrypted_card_number">>,
            <<"cvv", "encrypted_cvv">>}

\* two successful calls of one creator on one vault, one after the other
SameVaultCreates(op) ==
    /\ last.op = op /\ last.res = "ok"
    /\ last'.op = op /\ last'.res = "ok"
    /\ last'.in.vault_id = last.in.vault_id
    /\ last'.out.id # last.out.id

\* C11: for every item kind and every secret field, two successful creates
\* in the same vault with identical plaintext store two different
\* ciphertext values.
C11_SamePlaintextDistinctCiphertext ==
    [][\A op \in ItemOps :
         SameVaultCreates(op) =>
           \A f \in SecretFields(op) :
             last'.in[f[1]] = last.in[f[1]]
               => last'.out[f[2]] # last.out[f[2]]]_vars

\* C12: two createPasswordEntry calls in the same vault with the same
\* plaintext password return the same encrypted_password, and that value
\* differs from the plaintext.
C12_PasswordCiphertextRepeats ==
    [][/\ (/\ SameVaultCreates("createPasswordEntry")
           /\ last'.in.password = last.in.password)
          => last'.out.encrypted_password = last.out.encrypted_password
       /\ (last'.op = "createPasswordEntry" /\ last'.res = "ok")
          => last'.out.encrypted_password # Text(last'.in.password)]_vars

\* the second of two entries of one vault with one ciphertext was returned
C12_Witness ==
    /\ last.op = "createPasswordEntry" /\ last.res = "ok"
    /\ \E e \in passwordEntriesTable :
         /\ e.id # last.out.id
         /\ e.vault_id = last.out.vault_id
         /\ e.encrypted_password = last.out.encrypted_password

\* a stored value is an envelope when it has two parts, the IV in hex and
\* the output of a cipher run under that IV
IsEnvelope(value) ==
    /\ Len(value) = 2
    /\ value[1].alg = "hex"
    /\ value[2].alg = "aes-256-cbc"
    /\ value[2].n = value[1].x

\* decrypt(ciphertextEnvelope, vaultKeyMaterial) -> plaintext | fails (Null):
\* the cipher run backwards under the vault's key and the envelope's IV
Decrypt(value, key) ==
    IF IsEnvelope(value) /\ value[2].k = key THEN value[2].x ELSE Null

\* C13: every secret field a creator stores is a reversible envelope:
\* decrypting it with the vault's key gives back the plaintext of the call,
\* and it carries its nonce delimited from the ciphertext.
C13_StoredSecretsAreEnvelopes ==
    (last.op \in ItemOps /\ last.res = "ok") =>
        \A f \in SecretFields(last.op) :
            /\ IsEnvelope(last.out[f[2]])
            /\ Decrypt(last.out[f[2]], VaultKey(last.out.vault_id))
                 = last.in[f[1]]

====
